---- MODULE Spec2Model ----
(***************************************************************************)
(* Model of the shop analyzer service (src/app.py): the Response           *)
(* Normalizer inside analyze_image, the two POST handlers, init_db,        *)
(* get_db_connection and store_shop_data.                                   *)
(*                                                                         *)
(* Texts (the model's response, the shop_data form field) are sequences of *)
(* one-character strings; byte strings are sequences of small integers.    *)
(***************************************************************************)
EXTENDS Integers, Sequences, FiniteSets, TLC

(***************************************************************************)
(* Bounds of the model.                                                    *)
(***************************************************************************)
\* longest response text enumerated for the Normalizer
MaxLen == 3
\* requests (and start-ups) handled in one behaviour
MaxCalls == 3
\* last clock instant
MaxClock == 2
\* clock instants per wall-clock second (time.strftime truncates to seconds)
TicksPerSecond == 2

(***************************************************************************)
(* Characters and Python string operations.                                *)
(***************************************************************************)
\* whitespace json.loads skips between tokens
JsonWs == {" ", "\n", "\t", "\r"}
\* whitespace str.strip() removes (a superset of JSON's)
PyWs == JsonWs \cup {"\f"}
\* characters json.loads rejects inside a string literal
CtrlChars == {"\n", "\t", "\r", "\f"}
Digits == {"0", "1", "2"}
Quote == "\""

RECURSIVE LStrip(_)
LStrip(s) == IF s # <<>> /\ Head(s) \in PyWs THEN LStrip(Tail(s)) ELSE s

RECURSIVE RStrip(_)
RStrip(s) ==
    IF s # <<>> /\ s[Len(s)] \in PyWs THEN RStrip(SubSeq(s, 1, Len(s) - 1)) ELSE s

\* str.strip()
Strip(s) == RStrip(LStrip(s))

\* str.startswith(p)
StartsWith(s, p) == Len(s) >= Len(p) /\ SubSeq(s, 1, Len(p)) = p

\* str.endswith(p)
EndsWith(s, p) == Len(s) >= Len(p) /\ SubSeq(s, Len(s) - Len(p) + 1, Len(s)) = p

\* s[n:]
DropFirst(s, n) == SubSeq(s, n + 1, Len(s))

\* s[:-n]
DropLast(s, n) == SubSeq(s, 1, Len(s) - n)

\* the fence markers of analyze_image
\* the backquote character (the lexer admits none inside a string literal)
Backquote == "BQ"
FenceOpen == <<Backquote, Backquote, Backquote, "j", "s", "o", "n">>
FenceClose == <<Backquote, Backquote, Backquote>>

(***************************************************************************)
(* json.loads: a scanner over the text.  A value is a tagged pair:         *)
(*   <<"num", digits>>, <<"str", chars>>, <<"lit", chars>>,                *)
(*   <<"arr", <<v1, ..., vn>>>>, <<"obj", [key |-> value]>>.               *)
(* The grammar covers objects, arrays, strings without escapes, unsigned   *)
(* integers and true/false/null; the bounded input alphabets hold no       *)
(* backslash, sign, fraction or exponent.                                  *)
(***************************************************************************)
Fail(msg) == [ok |-> FALSE, val |-> <<>>, nxt |-> 0, err |-> msg]
Got(v, n) == [ok |-> TRUE, val |-> v, nxt |-> n, err |-> ""]

EmptyDict == [k \in {} |-> <<>>]
DictPut(d, k, v) == [x \in DOMAIN d \cup {k} |-> IF x = k THEN v ELSE d[x]]

RECURSIVE SkipWs(_, _)
SkipWs(s, i) == IF i <= Len(s) /\ s[i] \in JsonWs THEN SkipWs(s, i + 1) ELSE i

HasAt(s, i, p) == i + Len(p) - 1 <= Len(s) /\ SubSeq(s, i, i + Len(p) - 1) = p

\* the string literal whose opening quote is at i - 1
ScanString(s, i) ==
    LET ends == {j \in i..Len(s) : s[j] = Quote}
    IN  IF ends = {} THEN Fail("Unterminated string starting at")
        ELSE LET j == CHOOSE e \in ends : \A f \in ends : e <= f
             IN  IF \E k \in i..(j - 1) : s[k] \in CtrlChars
                 THEN Fail("Invalid control character at")
                 ELSE Got(<<"str", SubSeq(s, i, j - 1)>>, j + 1)

RECURSIVE DigitsEnd(_, _)
DigitsEnd(s, i) == IF i <= Len(s) /\ s[i] \in Digits THEN DigitsEnd(s, i + 1) ELSE i

\* an unsigned integer: "0", or a non-zero digit followed by digits
ScanNumber(s, i) ==
    LET n == IF s[i] = "0" THEN i + 1 ELSE DigitsEnd(s, i)
    IN  Got(<<"num", SubSeq(s, i, n - 1)>>, n)

LitTrue == <<"t", "r", "u", "e">>
LitFalse == <<"f", "a", "l", "s", "e">>
LitNull == <<"n", "u", "l", "l">>

RECURSIVE ParseValue(_, _), ParseElems(_, _, _), ParseMembers(_, _, _)
\* the value that starts at i
ParseValue(s, i) ==
    IF i > Len(s) THEN Fail("Expecting value")
    ELSE CASE s[i] = Quote -> ScanString(s, i + 1)
           [] s[i] \in Digits -> ScanNumber(s, i)
           [] s[i] = "[" ->
                IF HasAt(s, SkipWs(s, i + 1), <<"]">>)
                THEN Got(<<"arr", <<>>>>, SkipWs(s, i + 1) + 1)
                ELSE ParseElems(s, SkipWs(s, i + 1), <<>>)
           [] s[i] = "{" ->
                IF HasAt(s, SkipWs(s, i + 1), <<"}">>)
                THEN Got(<<"obj", EmptyDict>>, SkipWs(s, i + 1) + 1)
                ELSE ParseMembers(s, SkipWs(s, i + 1), EmptyDict)
           [] HasAt(s, i, LitTrue) -> Got(<<"lit", LitTrue>>, i + Len(LitTrue))
           [] HasAt(s, i, LitFalse) -> Got(<<"lit", LitFalse>>, i + Len(LitFalse))
           [] HasAt(s, i, LitNull) -> Got(<<"lit", LitNull>>, i + Len(LitNull))
           [] OTHER -> Fail("Expecting value")

\* after an array element r: a comma and the next element, or the end
ElemsAfter(s, r, acc) ==
    IF ~r.ok THEN r
    ELSE IF HasAt(s, SkipWs(s, r.nxt), <<"]">>)
         THEN Got(<<"arr", Append(acc, r.val)>>, SkipWs(s, r.nxt) + 1)
    ELSE IF HasAt(s, SkipWs(s, r.nxt), <<",">>)
         THEN ParseElems(s, SkipWs(s, SkipWs(s, r.nxt) + 1), Append(acc, r.val))
         ELSE Fail("Expecting , delimiter")

\* the elements of an array, the first of them at i
ParseElems(s, i, acc) == ElemsAfter(s, ParseValue(s, i), acc)

\* after an object member with value r, d being the members so far: a comma
\* and the next member, or the end
MembersAfter(s, r, d) ==
    IF HasAt(s, SkipWs(s, r.nxt), <<"}">>) THEN Got(<<"obj", d>>, SkipWs(s, r.nxt) + 1)
    ELSE IF HasAt(s, SkipWs(s, r.nxt), <<",">>)
         THEN ParseMembers(s, SkipWs(s, SkipWs(s, r.nxt) + 1), d)
         ELSE Fail("Expecting , delimiter")

\* after an object key k and its value r (a repeated key keeps its last
\* value, as a Python dict does)
MemberValue(s, k, r, acc) ==
    IF ~r.ok THEN r ELSE MembersAfter(s, r, DictPut(acc, k.val[2], r.val))

\* after an object key k: the colon, then the member's value
AfterKey(s, k, acc) ==
    IF ~k.ok THEN k
    ELSE IF ~HasAt(s, SkipWs(s, k.nxt), <<":">>) THEN Fail("Expecting : delimiter")
    ELSE MemberValue(s, k, ParseValue(s, SkipWs(s, SkipWs(s, k.nxt) + 1)), acc)

\* the members of an object, the first key's quote expected at i
ParseMembers(s, i, acc) ==
    IF ~HasAt(s, i, <<Quote>>)
    THEN Fail("Expecting property name enclosed in double quotes")
    ELSE AfterKey(s, ScanString(s, i + 1), acc)

\* the parse r of the text's value stands if only whitespace follows it
WholeText(s, r) ==
    IF ~r.ok THEN r
    ELSE IF SkipWs(s, r.nxt) <= Len(s) THEN Fail("Extra data") ELSE r

\* json.loads(s): one value, whitespace allowed around it, nothing after it
Loads(s) == WholeText(s, ParseValue(s, SkipWs(s, 1)))

(***************************************************************************)
(* analyze_image: the try body and its blanket handler.                    *)
(***************************************************************************)
\* first byte of an image PIL identifies
ImageMagic == 255

\* Image.open(io.BytesIO(image_data)): PIL identifies the format from the
\* leading bytes and raises UnidentifiedImageError otherwise
ImageOpens(image_data) == image_data # <<>> /\ Head(image_data) = ImageMagic

\* the markers dropped from the text as it came, without the leading strip
DropMarkersUnstripped(text) ==
    LET s2 == IF StartsWith(text, FenceOpen) THEN DropFirst(text, 7) ELSE text
        s3 == IF EndsWith(s2, FenceClose) THEN DropLast(s2, 3) ELSE s2
    IN  Strip(s3)

\* strip, drop the opening marker, drop the closing marker, strip
StripFences(text) ==
    LET s1 == Strip(text)
        s2 == IF StartsWith(s1, FenceOpen) THEN DropFirst(s1, 7) ELSE s1
        s3 == IF EndsWith(s2, FenceClose) THEN DropLast(s2, 3) ELSE s2
    IN  Strip(s3)

\* json.loads(json_str.strip()) of the fence-stripped response text
NormalizeText(text) == Loads(StripFences(text))

\* what the try body of analyze_image ends with: a value, or an exception
\* (its class and str(e)).  cap is what the Inference Capability does on
\* this call: raise (with any message) or return a text
\* resp = json.loads(...); return resp: r is what json.loads gave
ReturnParsed(r) ==
    IF r.ok THEN [exc |-> "none", msg |-> "", val |-> r.val]
    ELSE [exc |-> "JSONDecodeError", msg |-> r.err, val |-> <<>>]

TryAnalyze(image_data, cap) ==
    IF ~ImageOpens(image_data)
    THEN [exc |-> "UnidentifiedImageError", msg |-> "cannot identify image file",
          val |-> <<>>]
    ELSE IF cap.raises
         THEN [exc |-> "CapabilityError", msg |-> cap.msg, val |-> <<>>]
         ELSE ReturnParsed(NormalizeText(cap.text))

\* a handler that names json.JSONDecodeError only
CatchesDecodeErrorOnly(exc) == exc = "JSONDecodeError"

\* except Exception: every exception class the body can end with derives
\* from Exception
HandlerCatches(exc) == TRUE

\* the fallback dictionary analyze_image returns from its handler
Fallback(msg, stamp) ==
    [kind |-> "fallback", is_valid |-> FALSE, error |-> msg,
     analysis_metadata |-> [analysis_timestamp |-> stamp, is_shop |-> FALSE,
                            languages_detected |-> <<>>]]

\* the try statement: b is what its body ended with
TryExcept(b, stamp) ==
    IF b.exc = "none" THEN [kind |-> "parsed", value |-> b.val]
    ELSE IF HandlerCatches(b.exc) THEN Fallback(b.msg, stamp)
    ELSE [kind |-> "raised", exc |-> b.exc]

\* analyze_image(image_data) at clock second stamp
AnalyzeImage(image_data, cap, stamp) == TryExcept(TryAnalyze(image_data, cap), stamp)

(***************************************************************************)
(* json.dumps and the JSONB column: psycopg2's Json adapter writes the     *)
(* value as text, the store parses that text, a read parses it back.       *)
(***************************************************************************)
RECURSIVE Dumps(_), DumpsElems(_), DumpsMembers(_, _)
Dumps(v) ==
    CASE v[1] = "str" -> <<Quote>> \o v[2] \o <<Quote>>
      [] v[1] = "arr" -> <<"[">> \o DumpsElems(v[2]) \o <<"]">>
      [] v[1] = "obj" -> <<"{">> \o DumpsMembers(v[2], DOMAIN v[2]) \o <<"}">>
      [] OTHER -> v[2]

DumpsElems(vs) ==
    IF vs = <<>> THEN <<>>
    ELSE Dumps(Head(vs))
         \o (IF Len(vs) > 1 THEN <<",", " ">> \o DumpsElems(Tail(vs)) ELSE <<>>)

DumpsMembers(d, ks) ==
    IF ks = {} THEN <<>>
    ELSE LET k == CHOOSE x \in ks : TRUE
         IN  <<Quote>> \o k \o <<Quote, ":", " ">> \o Dumps(d[k])
             \o (IF ks \ {k} # {} THEN <<",", " ">> \o DumpsMembers(d, ks \ {k})
                 ELSE <<>>)

\* the value a JSONB column holds for Json(v)
ToJsonb(v) == Loads(Dumps(v)).val

\* the empty dict {}
EmptyObject == <<"obj", EmptyDict>>

DictHas(d, k) == \E x \in DOMAIN d : x = k

\* d.get(k, default) on a dict
DictGet(d, k, default) == IF DictHas(d, k) THEN d[k] ELSE default

(***************************************************************************)
(* Requests.  A multipart request is its file parts and its form fields,   *)
(* each a set of <<name, content>> pairs.                                  *)
(***************************************************************************)
HasPart(parts, name) == \E p \in parts : p[1] = name
Part(parts, name) == (CHOOSE p \in parts : p[1] = name)[2]

KeyLocation ==
    <<"l", "o", "c", "a", "t", "i", "o", "n">>
KeyInference ==
    <<"i", "n", "f", "e", "r", "e", "n", "c", "e">>

\* {"location": {"city": "X"}, "inference": {"type": "bakery"}}
ShopDataFull ==
    <<"{", Quote, "l", "o", "c", "a", "t", "i", "o", "n", Quote, ":", " ", "{", Quote,
      "c", "i", "t", "y", Quote, ":", " ", Quote, "X", Quote, "}", ",", " ", Quote,
      "i", "n", "f", "e", "r", "e", "n", "c", "e", Quote, ":", " ", "{", Quote, "t",
      "y", "p", "e", Quote, ":", " ", Quote, "b", "a", "k", "e", "r", "y", Quote, "}",
      "}">>
\* {"inference": 1}
ShopDataNoLocation ==
    <<"{", Quote, "i", "n", "f", "e", "r", "e", "n", "c", "e", Quote, ":", " ", "1",
      "}">>
\* [1]
ShopDataList ==
    <<"[", "1", "]">>
\* {"location":   (cut short)
ShopDataBroken ==
    <<"{", Quote, "l", "o", "c", "a", "t", "i", "o", "n", Quote, ":", " ">>

\* the model's reply: a fenced object, a bare object, prose, a fenced object
\* cut short
ReplyFenced ==
    <<Backquote, Backquote, Backquote, "j", "s", "o", "n", "\n", "{", Quote, "i", "s",
      "_", "v", "a", "l", "i", "d", Quote, ":", " ", "t", "r", "u", "e", "}", "\n",
      Backquote, Backquote, Backquote>>
ReplyPlain ==
    <<"{", Quote, "i", "s", "_", "v", "a", "l", "i", "d", Quote, ":", " ", "f", "a",
      "l", "s", "e", "}">>
ReplyProse ==
    <<"S", "o", "r", "r", "y">>
ReplyCut ==
    <<Backquote, Backquote, Backquote, "j", "s", "o", "n", "\n", "{", Quote, "i", "s",
      "_", "v", "a", "l", "i", "d", Quote, ":", " ", "t", "r">>

\* an image that decodes, one that does not
GoodImage == <<ImageMagic, 1>>
OtherImage == <<0, 1>>

Returns(text) == [raises |-> FALSE, msg |-> "", text |-> text]
Raises(msg) == [raises |-> TRUE, msg |-> msg, text |-> <<>>]

\* what the Inference Capability may do on a call: return a text, or raise an
\* exception whose str() is a message or, for an exception built without
\* arguments, the empty string
Capabilities ==
    {Returns(ReplyFenced), Returns(ReplyProse), Raises("503 Service Unavailable"),
     Raises("")}

\* the capability was not called
NotCalled == Returns(<<>>)

FileParts == {{}} \cup {{<<"image", b>>} : b \in {<<>>, GoodImage, OtherImage}}
FormParts ==
    {{}} \cup {{<<"shop_data", t>>} :
                 t \in {<<>>, ShopDataFull, ShopDataNoLocation, ShopDataList,
                        ShopDataBroken}}

(***************************************************************************)
(* The state: the database server, the audit folder, the clock, the        *)
(* serving process and the calls it is handling.                           *)
(***************************************************************************)
VARIABLES
    dbExists,      \* the database shop_data exists
    tableExists,   \* the table shops exists
    shops,         \* the committed rows of shops
    shopsSeq,      \* the last value of the SERIAL sequence of shops.id
    conns,         \* the connections open at the server: <<call, database>>
    auditDir,      \* the folder AUDIT_FOLDER exists
    auditFiles,    \* the files of the folder: path |-> bytes
    now,           \* the clock
    running,       \* init_db has returned and the server accepts requests
    calls,         \* the submit_shop calls inside store_shop_data
    ncalls,        \* calls started so far
    last,          \* the call that returned last, with its response
    okCalls        \* the POST /submit-shop calls that returned 200

svars == <<dbExists, tableExists, shops, shopsSeq, conns, auditDir, auditFiles,
           now, running, calls, ncalls, last, okCalls>>

\* the Normalizer specification's own state
VARIABLES
    ninner,   \* the text T
    nresp,    \* the capability's response: T, or T between the markers
    npc,      \* "input", then "done"
    nout      \* what analyze_image returned

nvars == <<ninner, nresp, npc, nout>>

vars == <<svars, nvars>>

\* the request threads of the (threaded) development server
Threads == {"t1", "t2"}

NoRequest == [method |-> "", files |-> {}, form |-> {}]
Post(files, form) == [method |-> "POST", files |-> files, form |-> form]

NoCall ==
    [cid |-> 0, route |-> "", req |-> NoRequest, status |-> 0, body |-> <<>>,
     fault |-> "none", wrote |-> FALSE, path |-> <<>>, cap |-> NotCalled]

\* a call's return, as the next value of last
Reply(cid, route, req, status, body) ==
    [NoCall EXCEPT !.cid = cid, !.route = route, !.req = req, !.status = status,
                   !.body = body]

ErrorBody(msg) == [error |-> msg, status |-> "error"]

\* the server is up and a thread is free to take a request
CanServe ==
    running /\ ncalls < MaxCalls /\ Cardinality(calls) < Cardinality(Threads)

(***************************************************************************)
(* get_db_connection, init_db                                              *)
(***************************************************************************)
ConnOutcomes == {"ok", "server_down", "query_fails", "db_connect_fails"}

\* get_db_connection() of call cid: connect to postgres, look the database
\* up and create it if missing, close, connect to shop_data.  o says which
\* statement raises, if any.  left: the connections the call leaves open
GetDbConnection(cid, o) ==
    LET pg == <<cid, "postgres">>
        db == <<cid, "shop_data">>
        opened == {pg}
        closed == opened \ {pg}
    IN  CASE o = "server_down" -> [ok |-> FALSE, left |-> {}, created |-> FALSE]
          [] o = "query_fails" -> [ok |-> FALSE, left |-> opened, created |-> FALSE]
          [] o = "db_connect_fails" -> [ok |-> FALSE, left |-> closed, created |-> TRUE]
          [] OTHER -> [ok |-> TRUE, left |-> closed \cup {db}, created |-> TRUE]

\* DROP TABLE followed by CREATE TABLE
DropAndCreateTable(exists, rows) == {}

\* CREATE TABLE IF NOT EXISTS shops: the rows of the table afterwards
CreateTableIfNotExists(exists, rows) == IF exists THEN rows ELSE {}

\* init_db() when the process starts; the server runs only once it returned
InitDb ==
    /\ ~running
    /\ ncalls < MaxCalls
    /\ ncalls' = ncalls + 1
    /\ \E o \in ConnOutcomes, ddl \in {"ok", "fails"} :
         LET cid == ncalls + 1
             c == GetDbConnection(cid, o)
             done == c.ok /\ ddl = "ok"
         IN  /\ dbExists' = (dbExists \/ c.created)
             /\ tableExists' = (tableExists \/ done)
             /\ shops' = IF done THEN CreateTableIfNotExists(tableExists, shops)
                         ELSE shops
             /\ conns' = conns \cup (IF done THEN c.left \ {<<cid, "shop_data">>}
                                     ELSE c.left)
             /\ running' = done
             /\ last' = Reply(cid, "init_db", NoRequest, 0,
                              IF done THEN "returned" ELSE "raised")
    /\ UNCHANGED <<nvars, shopsSeq, auditDir, auditFiles, now, calls, okCalls>>

\* the process ends (no call running); its sockets close with it
Stop ==
    /\ running
    /\ calls = {}
    /\ running' = FALSE
    /\ conns' = {}
    /\ UNCHANGED <<nvars, dbExists, tableExists, shops, shopsSeq, auditDir,
                   auditFiles, now, calls, ncalls, last, okCalls>>

\* the call that opened connection c is still running
InFlight(c) == \E k \in calls : k.cid = c[1]

\* the garbage collector finalizes the connection objects no call holds any
\* more, which closes them
Finalize ==
    /\ \E c \in conns : ~InFlight(c)
    /\ conns' = {c \in conns : InFlight(c)}
    /\ UNCHANGED <<nvars, dbExists, tableExists, shops, shopsSeq, auditDir,
                   auditFiles, now, running, calls, ncalls, last, okCalls>>

Tick ==
    /\ now < MaxClock
    /\ now' = now + 1
    /\ UNCHANGED <<nvars, dbExists, tableExists, shops, shopsSeq, conns, auditDir,
                   auditFiles, running, calls, ncalls, last, okCalls>>

\* time.strftime("%Y-%m-%d %H:%M:%S") and ("%Y%m%d%H%M%S"): the clock cut to
\* whole seconds
StrfTime(t) == t \div TicksPerSecond

(***************************************************************************)
(* POST /analyze-shop, GET /health, OPTIONS                                *)
(***************************************************************************)
\* if request.method == 'OPTIONS': return '', 204 (both routes)
Preflight ==
    /\ CanServe
    /\ ncalls' = ncalls + 1
    /\ \E route \in {"analyze", "submit"} :
         last' = Reply(ncalls + 1, route, [NoRequest EXCEPT !.method = "OPTIONS"],
                       204, <<>>)
    /\ UNCHANGED <<nvars, dbExists, tableExists, shops, shopsSeq, conns, auditDir,
                   auditFiles, now, running, calls, okCalls>>

\* return jsonify(analysis_result), 200; an exception out of analyze_image
\* would reach the handler's except clause
AnalyzeReturn(r) ==
    IF r.kind = "raised"
    THEN [status |-> 500, body |-> ErrorBody("Internal server error")]
    ELSE [status |-> 200, body |-> r]

\* analyze_shop() on a POST: the response, cap being what the Inference
\* Capability does if it is called
AnalyzeResponse(req, cap, stamp) ==
    IF ~HasPart(req.files, "image")
    THEN [status |-> 400, body |-> ErrorBody("No image provided")]
    ELSE IF Part(req.files, "image") = <<>>
         THEN [status |-> 400, body |-> ErrorBody("Empty image data")]
    ELSE AnalyzeReturn(AnalyzeImage(Part(req.files, "image"), cap, stamp))

\* the call cid of analyze_shop returns r
AnalyzeReply(cid, req, cap, r) ==
    [Reply(cid, "analyze", req, r.status, r.body) EXCEPT !.cap = cap]

\* the capability is called only once the image has opened
CapabilitiesFor(files) ==
    IF HasPart(files, "image") /\ ImageOpens(Part(files, "image"))
    THEN Capabilities ELSE {NotCalled}

AnalyzeShop ==
    /\ CanServe
    /\ ncalls' = ncalls + 1
    /\ \E f \in FileParts : \E cap \in CapabilitiesFor(f) :
         last' = AnalyzeReply(ncalls + 1, Post(f, {}), cap,
                              AnalyzeResponse(Post(f, {}), cap, StrfTime(now)))
    /\ UNCHANGED <<nvars, dbExists, tableExists, shops, shopsSeq, conns, auditDir,
                   auditFiles, now, running, calls, okCalls>>

HealthCheck ==
    /\ CanServe
    /\ ncalls' = ncalls + 1
    /\ last' = Reply(ncalls + 1, "health", [NoRequest EXCEPT !.method = "GET"], 200,
                     [status |-> "healthy", timestamp |-> StrfTime(now),
                      service |-> "shop-analyzer"])
    /\ UNCHANGED <<nvars, dbExists, tableExists, shops, shopsSeq, conns, auditDir,
                   auditFiles, now, running, calls, okCalls>>

(***************************************************************************)
(* POST /submit-shop, store_shop_data                                      *)
(***************************************************************************)
Refuse(code, msg) ==
    [status |-> code, body |-> ErrorBody(msg), location_data |-> <<>>,
     shop_inference |-> <<>>]

\* the extraction with every exception going to the except Exception clause
ExtractFieldsOneHandler(r) ==
    IF ~r.ok \/ r.val[1] # "obj" THEN Refuse(500, "Internal server error")
    ELSE [status |-> 0, body |-> <<>>,
          location_data |-> DictGet(r.val[2], KeyLocation, EmptyObject),
          shop_inference |-> DictGet(r.val[2], KeyInference, EmptyObject)]

\* shop_data = json.loads(...) gave r; the two shop_data.get calls
ExtractFields(r) ==
    \* except json.JSONDecodeError
    IF ~r.ok THEN Refuse(400, "Invalid JSON data")
    \* shop_data.get on a list, number, string or None: AttributeError
    ELSE IF r.val[1] # "obj" THEN Refuse(500, "Internal server error")
    ELSE [status |-> 0, body |-> <<>>,
          location_data |-> DictGet(r.val[2], KeyLocation, EmptyObject),
          shop_inference |-> DictGet(r.val[2], KeyInference, EmptyObject)]

\* submit_shop() up to the audit write: the error response (status 400 or
\* 500), or status 0 and the extracted fields
SubmitCheck(req) ==
    IF ~HasPart(req.files, "image") THEN Refuse(400, "No image provided")
    ELSE IF Part(req.files, "image") = <<>> THEN Refuse(400, "Empty image data")
    ELSE IF ~HasPart(req.form, "shop_data") \/ Part(req.form, "shop_data") = <<>>
         THEN Refuse(400, "No shop data provided")
    ELSE ExtractFields(Loads(Part(req.form, "shop_data")))

\* os.path.join(AUDIT_FOLDER, f"{timestamp}.jpg")
AuditPath(t) == <<"audit", StrfTime(t), ".jpg">>

AuditOutcomes == {"ok", "mkdir_fails", "open_fails", "write_fails"}

\* open(image_path, "wb") and f.write(image_data): the folder's files after.
\* open creates or truncates the file; a failed write leaves it empty
WriteFile(files, path, bytes, o) ==
    IF o \in {"mkdir_fails", "open_fails"} THEN files
    ELSE [p \in DOMAIN files \cup {path} |->
            IF p = path THEN (IF o = "ok" THEN bytes ELSE <<>>) ELSE files[p]]

\* the call as it enters store_shop_data
Stored(cid, req, c, path) ==
    [pc |-> "connect", cid |-> cid, req |-> req,
     image_data |-> Part(req.files, "image"), location_data |-> c.location_data,
     shop_inference |-> c.shop_inference, path |-> path, shop_id |-> 0,
     created_at |-> 0]

\* the audit write of call cid, then on to store_shop_data, or the 500
\* response if the write raised
AuditWrite(cid, req, c, o) ==
    \* os.makedirs runs (and can fail) only if the folder is missing
    /\ o = "mkdir_fails" => ~auditDir
    /\ auditDir' = (auditDir \/ o # "mkdir_fails")
    /\ auditFiles' = WriteFile(auditFiles, AuditPath(now), Part(req.files, "image"), o)
    /\ IF o = "ok"
       THEN /\ calls' = calls \cup {Stored(cid, req, c, AuditPath(now))}
            /\ UNCHANGED last
       ELSE /\ last' = [Reply(cid, "submit", req, 500,
                              ErrorBody("Internal server error"))
                          EXCEPT !.fault = "audit", !.wrote = (o = "write_fails"),
                                 !.path = AuditPath(now)]
            /\ UNCHANGED calls

\* call cid of submit_shop, c being what the checks gave
SubmitStep(cid, req, c) ==
    IF c.status # 0
    THEN /\ last' = Reply(cid, "submit", req, c.status, c.body)
         /\ UNCHANGED <<calls, auditDir, auditFiles>>
    ELSE \E o \in AuditOutcomes : AuditWrite(cid, req, c, o)

\* submit_shop() on a POST, from the request to the audit write
SubmitShop ==
    /\ CanServe
    /\ ncalls' = ncalls + 1
    /\ \E f \in FileParts, d \in FormParts :
         SubmitStep(ncalls + 1, Post(f, d), SubmitCheck(Post(f, d)))
    /\ UNCHANGED <<nvars, dbExists, tableExists, shops, shopsSeq, conns, now, running,
                   okCalls>>

\* the handler's except clause after store_shop_data raised: status 500
SubmitFails(k) ==
    /\ last' = [Reply(k.cid, "submit", k.req, 500, ErrorBody("Internal server error"))
                  EXCEPT !.fault = "db", !.wrote = TRUE, !.path = k.path]
    /\ calls' = calls \ {k}

\* store_shop_data: conn = get_db_connection()
StoreConnect(k) ==
    /\ k.pc = "connect"
    /\ \E o \in ConnOutcomes :
         LET c == GetDbConnection(k.cid, o)
         IN  /\ conns' = conns \cup c.left
             /\ dbExists' = (dbExists \/ c.created)
             /\ IF c.ok
                THEN /\ calls' = (calls \ {k}) \cup {[k EXCEPT !.pc = "insert"]}
                     /\ UNCHANGED last
                ELSE SubmitFails(k)
    /\ UNCHANGED <<nvars, tableExists, shops, shopsSeq, auditDir, auditFiles, now,
                   running, ncalls, okCalls>>

\* an id read off the sequence without advancing it
CurrentId(seq) == seq

\* the id the SERIAL column draws from its sequence
NextId(seq) == seq + 1

\* the row INSERT builds from the call's fields (by: the inserting call)
NewRow(k) ==
    [id |-> k.shop_id, location_data |-> ToJsonb(k.location_data),
     shop_inference |-> ToJsonb(k.shop_inference), image_data |-> k.image_data,
     created_at |-> k.created_at, by |-> k.cid]

\* an INSERT on a connection in autocommit mode
AutoCommitted(rows, row) == rows \cup {row}

\* the rows of shops other transactions see after an INSERT that is not yet
\* committed (psycopg2 opens a transaction; autocommit is off)
AfterExecute(rows, row) == rows

\* store_shop_data: cursor.execute(INSERT ... RETURNING id), fetchone.  The
\* row stays private to the transaction; the sequence value is spent
StoreInsert(k) ==
    /\ k.pc = "insert"
    /\ \E o \in {"ok", "fails"} :
         IF o = "ok" /\ tableExists
         THEN /\ shopsSeq' = NextId(shopsSeq)
              /\ calls' = (calls \ {k}) \cup
                            {[k EXCEPT !.pc = "commit", !.shop_id = NextId(shopsSeq),
                                       !.created_at = now]}
              /\ shops' = AfterExecute(shops,
                            NewRow([k EXCEPT !.shop_id = NextId(shopsSeq),
                                             !.created_at = now]))
              /\ UNCHANGED last
         ELSE /\ SubmitFails(k)
              /\ UNCHANGED <<shopsSeq, shops>>
    /\ UNCHANGED <<nvars, dbExists, tableExists, conns, auditDir, auditFiles, now,
                   running, ncalls, okCalls>>

\* the rows of shops once the transaction holding row has committed
Committed(rows, row) == rows \cup {row}

\* store_shop_data: conn.commit(), cursor.close(), conn.close(), return; then
\* the handler's 200 response
StoreCommit(k) ==
    /\ k.pc = "commit"
    /\ \E o \in {"ok", "fails"} :
         IF o = "ok"
         THEN /\ shops' = Committed(shops, NewRow(k))
              /\ conns' = conns \ {<<k.cid, "shop_data">>}
              /\ last' = [Reply(k.cid, "submit", k.req, 200,
                                [status |-> "success", shop_id |-> k.shop_id,
                                 message |-> "Shop data successfully stored"])
                            EXCEPT !.wrote = TRUE, !.path = k.path]
              /\ okCalls' = okCalls \cup {[cid |-> k.cid, shop_id |-> k.shop_id,
                                           image |-> k.image_data, path |-> k.path]}
              /\ calls' = calls \ {k}
         ELSE /\ SubmitFails(k)
              /\ UNCHANGED <<shops, conns, okCalls>>
    /\ UNCHANGED <<nvars, dbExists, tableExists, shopsSeq, auditDir, auditFiles, now,
                   running, ncalls>>

(***************************************************************************)
(* The service.                                                            *)
(***************************************************************************)
\* a fresh deployment: no database, no audit folder, the process not started
SInit ==
    /\ dbExists = FALSE
    /\ tableExists = FALSE
    /\ shops = {}
    /\ shopsSeq = 0
    /\ conns = {}
    /\ auditDir = FALSE
    /\ auditFiles = [p \in {} |-> <<>>]
    /\ now = 0
    /\ running = FALSE
    /\ calls = {}
    /\ ncalls = 0
    /\ last = NoCall
    /\ okCalls = {}

SNext ==
    \/ InitDb
    \/ Stop
    \/ Finalize
    \/ Tick
    \/ Preflight
    \/ AnalyzeShop
    \/ HealthCheck
    \/ SubmitShop
    \/ \E k \in calls : StoreConnect(k)
    \/ \E k \in calls : StoreInsert(k)
    \/ \E k \in calls : StoreCommit(k)

(***************************************************************************)
(* The Normalizer on its own: analyze_image applied to enumerated response *)
(* texts.                                                                  *)
(***************************************************************************)
\* characters of the enumerated response texts
NormAlphabet == {"{", "}", "[", "]", ":", ",", Quote, "1", " ", Backquote}

\* every text of at most n characters
TextsUpTo(n) == UNION {[1..k -> NormAlphabet] : k \in 0..n}

\* "```", ["```json"] and {"a": "```"}: JSON texts holding the markers
SampleA ==
    <<Quote, Backquote, Backquote, Backquote, Quote>>
SampleB ==
    <<"[", Quote, Backquote, Backquote, Backquote, "j", "s", "o", "n", Quote, "]">>
SampleC ==
    <<"{", Quote, "a", Quote, ":", " ", Quote, Backquote, Backquote, Backquote, Quote,
      "}">>

NormTexts ==
    TextsUpTo(MaxLen)
        \cup {SampleA, SampleB, SampleC, ReplyPlain, ReplyProse, ReplyCut}

\* whitespace put before, between and after the markers and the text
Pads == {<<>>, <<"\n">>, <<" ", "\f">>}

\* the text t inside the two markers, padded
Fenced(t, p) == p[1] \o FenceOpen \o p[2] \o t \o p[3] \o FenceClose \o p[4]

\* the Normalizer specification's variables, unused by the service
NormOff == ninner = <<>> /\ nresp = <<>> /\ npc = "off" /\ nout = [kind |-> "none"]

\* the service's variables, unused by the Normalizer specification
ServiceOff ==
    /\ dbExists = FALSE /\ tableExists = FALSE /\ shops = {} /\ shopsSeq = 0
    /\ conns = {} /\ auditDir = FALSE /\ auditFiles = [p \in {} |-> <<>>]
    /\ now = 0 /\ running = FALSE /\ calls = {}
    /\ ncalls = 0 /\ last = NoCall /\ okCalls = {}

\* a response text: a text as it is, or the text between fence markers
NormInit ==
    /\ ServiceOff
    /\ ninner \in NormTexts
    /\ \/ nresp = ninner
       \/ \E p \in [1..4 -> Pads] : nresp = Fenced(ninner, p)
    /\ npc = "input"
    /\ nout = [kind |-> "none"]

\* analyze_image on a decodable image when the capability returns nresp
Normalize ==
    /\ npc = "input"
    /\ nout' = AnalyzeImage(GoodImage, Returns(nresp), 0)
    /\ npc' = "done"
    /\ UNCHANGED <<ninner, nresp, svars>>

NormNext == Normalize

NormSpec == NormInit /\ [][NormNext]_vars

Init == SInit /\ NormOff

Next == SNext

Spec == Init /\ [][Next]_vars

(***************************************************************************)
(* Claims.                                                                 *)
(***************************************************************************)
\* C2: whenever the text T parses as JSON, analyze_image returns exactly the
\* parse of T, both for the response T and for T between the fence markers
\* with any of the whitespace paddings
FenceTransparent ==
    (npc = "done" /\ Loads(ninner).ok) =>
        nout = [kind |-> "parsed", value |-> Loads(ninner).val]

\* a fenced, padded response holding a string of backquotes was normalized
FenceTransparentWitness ==
    /\ npc = "done"
    /\ Loads(ninner).ok
    /\ nresp # ninner
    /\ Len(nresp) > Len(ninner) + Len(FenceOpen) + Len(FenceClose)
    /\ Backquote \in {ninner[i] : i \in 1..Len(ninner)}

\* the POST request of the call that returned last
LastPost(route) == last.route = route /\ last.req.method = "POST"

\* the call that returned last carried an image part of at least one byte
LastHasImage == HasPart(last.req.files, "image") /\ Part(last.req.files, "image") # <<>>

\* the call that returned last carried a shop_data field
LastHasShopData == HasPart(last.req.form, "shop_data")

\* one of the three failures inside analyze_image happened in the last call
AnalysisFailed ==
    /\ LastHasImage
    /\ \/ ~ImageOpens(Part(last.req.files, "image"))
       \/ last.cap.raises
       \/ ~NormalizeText(last.cap.text).ok

\* C1: whenever analyze_image fails inside (undecodable image, the capability
\* raises, the response is not JSON after fence-stripping) it does not raise
\* and returns is_valid false, a non-empty error string, is_shop false and
\* no detected languages
FallbackOnEveryFailure ==
    (LastPost("analyze") /\ AnalysisFailed) =>
        /\ last.status = 200
        /\ last.body.kind = "fallback"
        /\ last.body.is_valid = FALSE
        /\ last.body.error # ""
        /\ last.body.analysis_metadata.is_shop = FALSE
        /\ last.body.analysis_metadata.languages_detected = <<>>

\* C3: POST /analyze-shop answers 400 exactly when the image part is absent
\* or empty, and 200 for every non-empty image whatever happens inside
\* analyze_image, a failure giving a body with is_valid false
AnalyzeStatus ==
    LastPost("analyze") =>
        /\ (last.status = 400) <=> ~LastHasImage
        /\ LastHasImage => last.status = 200
        /\ AnalysisFailed => (last.body.kind = "fallback" /\ last.body.is_valid = FALSE)

\* the capability raised on a decodable image and the response was 200 with
\* the fallback body
AnalyzeStatusWitness ==
    /\ LastPost("analyze")
    /\ LastHasImage
    /\ ImageOpens(Part(last.req.files, "image"))
    /\ last.cap.raises
    /\ last.status = 200
    /\ last.body.kind = "fallback"

\* C4: POST /submit-shop answers 400 when the image part is missing or empty,
\* when shop_data is missing, and when shop_data does not parse as JSON
SubmitRefusals ==
    (/\ LastPost("submit")
     /\ \/ ~LastHasImage
        \/ ~LastHasShopData
        \/ ~Loads(Part(last.req.form, "shop_data")).ok) => last.status = 400

\* a request with an image and a shop_data text cut short was refused
SubmitRefusalsWitness ==
    /\ LastPost("submit")
    /\ LastHasImage
    /\ LastHasShopData
    /\ Part(last.req.form, "shop_data") = ShopDataBroken
    /\ last.status = 400

\* the row the response of the last call names holds the request's data
RowMatchesRequest ==
    \E r \in shops :
        LET d == Loads(Part(last.req.form, "shop_data")).val[2]
        IN  /\ r.id = last.body.shop_id
            /\ r.by = last.cid
            /\ r.location_data = DictGet(d, KeyLocation, EmptyObject)
            /\ r.shop_inference = DictGet(d, KeyInference, EmptyObject)
            /\ r.image_data = Part(last.req.files, "image")

\* C5: a POST /submit-shop with a non-empty image and a shop_data that parses
\* as JSON, of any shape, with no failure of the audit write or the database,
\* returns 200 with the shop_id of a new row holding shop_data's location and
\* inference and the submitted image
SubmitAnyJson ==
    (/\ LastPost("submit")
     /\ LastHasImage
     /\ LastHasShopData
     /\ Loads(Part(last.req.form, "shop_data")).ok
     /\ last.fault = "none") => (last.status = 200 /\ RowMatchesRequest)

\* the last call was a POST /submit-shop that did not return 200
LastSubmitFailed == LastPost("submit") /\ last.status # 200

\* no row of shops comes from the last call
NoRowOfLast == \A r \in shops : r.by # last.cid

\* C6 as stated: a POST /submit-shop call that does not return 200 leaves no
\* row in shops and has written no audit file
AllOrNothing == LastSubmitFailed => (NoRowOfLast /\ ~last.wrote)

\* C6: a POST /submit-shop call that does not return 200 leaves no row in
\* shops; a call that returns 400 has written no audit file; a call that
\* returns 500 because the database connection, the insert or the commit
\* failed has written its audit file, which is still in the folder
NoRowUnlessSuccess ==
    LastSubmitFailed =>
        /\ NoRowOfLast
        /\ last.status = 400 => ~last.wrote
        /\ last.fault = "db" => (last.wrote /\ last.path \in DOMAIN auditFiles)

\* a call failed in store_shop_data after its audit file was written: no row,
\* the file in the folder
NoRowUnlessSuccessWitness ==
    /\ LastSubmitFailed
    /\ last.fault = "db"
    /\ NoRowOfLast
    /\ last.path \in DOMAIN auditFiles
    /\ auditFiles[last.path] = Part(last.req.files, "image")

\* C7: shops has as many rows as POST /submit-shop calls returned 200, and
\* the shop_ids of those responses name distinct rows
OneRowPerSuccess ==
    /\ Cardinality(shops) = Cardinality(okCalls)
    /\ \A c \in okCalls : \E r \in shops : r.id = c.shop_id /\ r.by = c.cid
    /\ \A c1, c2 \in okCalls : c1.cid # c2.cid => c1.shop_id # c2.shop_id
    /\ \A r1, r2 \in shops : r1.id = r2.id => r1 = r2

\* two calls have returned 200, with the ids 1 and 2
OneRowPerSuccessWitness ==
    /\ Cardinality(okCalls) = 2
    /\ Cardinality(shops) = 2
    /\ \E c1, c2 \in okCalls : c1.shop_id = 1 /\ c2.shop_id = 2

\* C8: every step of the service (the handlers, init_db at a start) keeps
\* each row of shops in the table, with all its fields as they were
RowsImmutable == [][\A r \in shops : r \in shops']_vars

\* init_db has run again on a table that holds a row
RowsImmutableWitness ==
    /\ shops # {}
    /\ last.route = "init_db"
    /\ last.body = "returned"
    /\ running

\* C9: no connection stays open once the call that opened it has returned or
\* raised
ConnectionsReleased == \A c \in conns : InFlight(c)

\* C10: the audit folder holds, for every call that returned 200, a file with
\* the bytes of that call's image
OwnAuditCopy ==
    \A c \in okCalls : c.path \in DOMAIN auditFiles /\ auditFiles[c.path] = c.image

====
